---- MODULE Spec2Model ----
(***************************************************************************)
(* Model of portage.util.digraph (lib/portage/util/digraph.py).            *)
(*                                                                         *)
(* Two digraph instances, "g" and "h", live in one Python heap.  A Python  *)
(* dict is a sequence of <<key, value>> pairs in insertion order.  The     *)
(* priority lists that the two adjacency views of an edge share are heap   *)
(* objects: the dicts hold list ids, `heap` maps an id to the list.        *)
(***************************************************************************)
EXTENDS Integers, Sequences, FiniteSets, TLC

(***************************************************************************)
(* Bounds of the model.                                                    *)
(***************************************************************************)
\* most nodes one graph holds
MaxNodes == 3
\* most priority entries the lists of one graph hold together
MaxEntries == 3
\* most priority entries both graphs hold together
MaxHeap == 2
\* most priority entries the graph of the traversal specification holds
MaxLinks == 5
\* most edges of a graph a traversal is run on, one loop iteration at a time
MaxRunLinks == 3
\* most priority entries memory holds while an update runs
MaxMemory == 6

(***************************************************************************)
(* Values.                                                                 *)
(***************************************************************************)
\* Python's None
NoneVal == "<None>"

\* node keys; "" is a key whose truth value is false
Nodes == {"", "pkgA", "pkgB", "pkgC"}

GraphIds == {"g", "h"}

\* priority objects: `id` is the object's identity, `val` what < compares
RUNTIME == [id |-> 1, val |-> -3]
RUNTIME2 == [id |-> 2, val |-> -3]
BUILDTIME == [id |-> 3, val |-> -1]
Priorities == {RUNTIME, RUNTIME2, BUILDTIME}

\* the inputs of the specification of two graphs
TwoNodes == {"pkgA", "pkgB"}
TwoPriorities == {RUNTIME, BUILDTIME}

\* the three modes of ignore_priority
NoFilter == [mode |-> "none", t |-> 0, f |-> {}]
Threshold(t) == [mode |-> "threshold", t |-> t, f |-> {}]
Predicate(f) == [mode |-> "callable", t |-> 0, f |-> f]
Thresholds == {-4, -3, -2, -1}
Filters ==
    {NoFilter} \cup {Threshold(t) : t \in Thresholds}
        \cup {Predicate(f) : f \in SUBSET Priorities}

\* exceptions
NoExc == [type |-> "None", arg |-> NoneVal]
KeyError(k) == [type |-> "KeyError", arg |-> k]
ValueError(k) == [type |-> "ValueError", arg |-> k]
IndexError == [type |-> "IndexError", arg |-> NoneVal]

\* bool(x) is False
Falsy(x) == x = NoneVal \/ x = ""

(***************************************************************************)
(* Python dicts (insertion ordered).                                       *)
(***************************************************************************)
DictKeys(d) == [i \in 1..Len(d) |-> d[i][1]]

DictKeySet(d) == {d[i][1] : i \in 1..Len(d)}

DictValSet(d) == {d[i][2] : i \in 1..Len(d)}

DictHas(d, k) == \E i \in 1..Len(d) : d[i][1] = k

DictGet(d, k) == d[CHOOSE i \in 1..Len(d) : d[i][1] = k][2]

DictSet(d, k, v) ==
    IF DictHas(d, k)
    THEN [i \in 1..Len(d) |-> IF d[i][1] = k THEN <<k, v>> ELSE d[i]]
    ELSE Append(d, <<k, v>>)

DictDel(d, k) == SelectSeq(d, LAMBDA e : e[1] # k)

(***************************************************************************)
(* Python lists.                                                           *)
(***************************************************************************)
\* set(s)
Elems(s) == {s[i] : i \in 1..Len(s)}

\* list.remove(x): drops the first occurrence
RECURSIVE ListRemove(_, _)
ListRemove(s, x) ==
    IF s = <<>> THEN <<>>
    ELSE IF Head(s) = x THEN Tail(s)
    ELSE <<Head(s)>> \o ListRemove(Tail(s), x)

ListInsert(s, i, x) == SubSeq(s, 1, i) \o <<x>> \o SubSeq(s, i + 1, Len(s))

\* bisect.bisect_right(a, x, lo, hi), 0-based lo and hi
RECURSIVE BisectRight(_, _, _, _)
BisectRight(a, x, lo, hi) ==
    IF lo < hi
    THEN LET mid == (lo + hi) \div 2
         IN  IF x.val < a[mid + 1].val
             THEN BisectRight(a, x, lo, mid)
             ELSE BisectRight(a, x, mid + 1, hi)
    ELSE lo

\* mutant: list.insert(0, x) in place of bisect.insort
InsortFront(a, x) == <<x>> \o a

\* mutant: list.append in place of bisect.insort
InsortAppend(a, x) == Append(a, x)

\* bisect.insort(a, x)
Insort(a, x) == ListInsert(a, BisectRight(a, x, 0, Len(a)), x)

(***************************************************************************)
(* The program state: st = [nodes, order, heap, exc].                      *)
(*   nodes[g]  self.nodes of graph g: dict node -> <<children, parents,    *)
(*             node>>, children and parents dicts key -> list id           *)
(*   order[g]  self.order of graph g                                       *)
(*   heap      list id -> priority list                                    *)
(*   exc       the exception being raised, NoExc when none                 *)
(***************************************************************************)
VARIABLES nodes, order, heap, last, script

vars == <<nodes, order, heap, last, script>>

Cur == [nodes |-> nodes, order |-> order, heap |-> heap, exc |-> NoExc]

Raise(st, e) == [st EXCEPT !.exc = e]

NodeData(st, g, n) == DictGet(st.nodes[g], n)

\* self.nodes[n][0] and self.nodes[n][1]
ChildrenOf(st, g, n) == NodeData(st, g, n)[1]

ParentsOf(st, g, n) == NodeData(st, g, n)[2]

SetChildren(st, g, n, d) ==
    [st EXCEPT !.nodes[g] = DictSet(@, n, <<d, DictGet(@, n)[2], DictGet(@, n)[3]>>)]

SetParents(st, g, n, d) ==
    [st EXCEPT !.nodes[g] = DictSet(@, n, <<DictGet(@, n)[1], d, DictGet(@, n)[3]>>)]

\* the list ids some adjacency dict of some graph refers to
LiveIds(nd) ==
    UNION {UNION {DictValSet(nd[g][i][2][1]) \cup DictValSet(nd[g][i][2][2])
                  : i \in 1..Len(nd[g])}
           : g \in GraphIds}

\* reference counting frees the lists nothing refers to any more; the
\* operators that delete dict entries or drop a graph end with it
Collect(st) ==
    [st EXCEPT !.heap = [id \in (DOMAIN st.heap) \cap LiveIds(st.nodes) |-> st.heap[id]]]

\* a fresh list object; which id it gets is immaterial, so long as it is unused
Generations == 0..3

NewId(st, g, node, parent) ==
    LET k == CHOOSE i \in Generations :
                /\ <<g, node, parent, i>> \notin DOMAIN st.heap
                /\ \A j \in Generations :
                      j < i => <<g, node, parent, j>> \in DOMAIN st.heap
    IN  <<g, node, parent, k>>

HeapSet(st, id, l) ==
    [st EXCEPT !.heap = [i \in (DOMAIN st.heap) \cup {id} |-> IF i = id THEN l ELSE st.heap[i]]]

(***************************************************************************)
(* digraph.add                                                             *)
(***************************************************************************)
\* mutant: a new node goes to the front of self.order
EnsureNodeFront(st, g, n) ==
    IF DictHas(st.nodes[g], n)
    THEN st
    ELSE [st EXCEPT !.nodes[g] = DictSet(@, n, <<<<>>, <<>>, n>>),
                    !.order[g] = <<n>> \o @]

\* if n not in self.nodes: self.nodes[n] = ({}, {}, n); self.order.append(n)
EnsureNode(st, g, n) ==
    IF DictHas(st.nodes[g], n)
    THEN st
    ELSE [st EXCEPT !.nodes[g] = DictSet(@, n, <<<<>>, <<>>, n>>),
                    !.order[g] = Append(@, n)]

\* lines 44-51: look the shared list up, create it in both views, insort
AddPriority(st, g, node, parent, priority) ==
    LET found == DictHas(ParentsOf(st, g, node), parent)
        id == IF found THEN DictGet(ParentsOf(st, g, node), parent)
              ELSE NewId(st, g, node, parent)
        s1 == IF found THEN st
              ELSE LET a == HeapSet(st, id, <<>>)
                       b == SetParents(a, g, node, DictSet(ParentsOf(a, g, node), parent, id))
                   IN  SetChildren(b, g, parent, DictSet(ChildrenOf(b, g, parent), node, id))
        priorities == s1.heap[id]
    IN  IF priorities = <<>> \/ priorities[Len(priorities)] # priority
        THEN HeapSet(s1, id, Insort(priorities, priority))
        ELSE s1

add(st, g, node, parent, priority) ==
    LET s1 == EnsureNode(st, g, node)
    IN  IF Falsy(parent)
        THEN s1
        ELSE AddPriority(EnsureNode(s1, g, parent), g, node, parent, priority)

(***************************************************************************)
(* digraph.remove, digraph.discard, digraph.clear                          *)
(***************************************************************************)
\* del self.nodes[owner][0][key]
DelChild(st, g, owner, key) ==
    IF st.exc # NoExc THEN st
    ELSE IF ~DictHas(st.nodes[g], owner) THEN Raise(st, KeyError(owner))
    ELSE IF ~DictHas(ChildrenOf(st, g, owner), key) THEN Raise(st, KeyError(key))
    ELSE SetChildren(st, g, owner, DictDel(ChildrenOf(st, g, owner), key))

\* mutant: the parents entry is left in place
DelParentSkipped(st, g, owner, key) == st

\* del self.nodes[owner][1][key]
DelParent(st, g, owner, key) ==
    IF st.exc # NoExc THEN st
    ELSE IF ~DictHas(st.nodes[g], owner) THEN Raise(st, KeyError(owner))
    ELSE IF ~DictHas(ParentsOf(st, g, owner), key) THEN Raise(st, KeyError(key))
    ELSE SetParents(st, g, owner, DictDel(ParentsOf(st, g, owner), key))

\* for parent in <ps>: del self.nodes[parent][0][node]
RECURSIVE DetachFromParents(_, _, _, _)
DetachFromParents(st, g, node, ps) ==
    IF ps = <<>> \/ st.exc # NoExc THEN st
    ELSE DetachFromParents(DelChild(st, g, Head(ps), node), g, node, Tail(ps))

\* mutant: the loop over the children is left out
DetachFromChildrenSkipped(st, g, node, cs) == st

\* for child in <cs>: del self.nodes[child][1][node]
RECURSIVE DetachFromChildren(_, _, _, _)
DetachFromChildren(st, g, node, cs) ==
    IF cs = <<>> \/ st.exc # NoExc THEN st
    ELSE DetachFromChildren(DelParent(st, g, Head(cs), node), g, node, Tail(cs))

\* lines 71-76, shared by remove and difference_update
DetachNode(st, g, node) ==
    LET s1 == DetachFromParents(st, g, node, DictKeys(ParentsOf(st, g, node)))
        s2 == IF s1.exc # NoExc THEN s1
              ELSE DetachFromChildren(s1, g, node, DictKeys(ChildrenOf(s1, g, node)))
    IN  IF s2.exc # NoExc THEN s2
        ELSE [s2 EXCEPT !.nodes[g] = DictDel(@, node)]

\* mutant: remove leaves `order` alone
OrderRemoveSkipped(st, g, node) == st

\* self.order.remove(node)
OrderRemove(st, g, node) ==
    IF st.exc # NoExc THEN st
    ELSE IF \A i \in 1..Len(st.order[g]) : st.order[g][i] # node
    THEN Raise(st, ValueError(node))
    ELSE [st EXCEPT !.order[g] = ListRemove(@, node)]

remove(st, g, node) ==
    IF ~DictHas(st.nodes[g], node)
    THEN Raise(st, KeyError(node))
    ELSE Collect(OrderRemove(DetachNode(st, g, node), g, node))

\* mutant: the KeyError of remove is not caught
discard_strict(st, g, node) == remove(st, g, node)

discard(st, g, node) ==
    LET s1 == remove(st, g, node)
    IN  IF s1.exc.type = "KeyError" THEN Raise(s1, NoExc) ELSE s1

clear(st, g) == Collect([st EXCEPT !.nodes[g] = <<>>, !.order[g] = <<>>])

(***************************************************************************)
(* digraph.difference_update                                               *)
(***************************************************************************)
\* the loop over self.order, `kept` being the local list `order`
RECURSIVE DifferenceLoop(_, _, _, _, _)
DifferenceLoop(st, g, t, todo, kept) ==
    IF st.exc # NoExc THEN st
    ELSE IF todo = <<>> THEN [st EXCEPT !.order[g] = kept]
    ELSE IF Head(todo) \notin t
    THEN DifferenceLoop(st, g, t, Tail(todo), Append(kept, Head(todo)))
    ELSE IF ~DictHas(st.nodes[g], Head(todo))
    THEN Raise(st, KeyError(Head(todo)))
    ELSE DifferenceLoop(DetachNode(st, g, Head(todo)), g, t, Tail(todo), kept)

\* mutant: self.order is not replaced by the rebuilt list
difference_update_keeps_order(st, g, t) ==
    Collect([DifferenceLoop(st, g, t, st.order[g], <<>>) EXCEPT !.order[g] = st.order[g]])

difference_update(st, g, t) == Collect(DifferenceLoop(st, g, t, st.order[g], <<>>))

(***************************************************************************)
(* digraph.has_edge, digraph.remove_edge, digraph.contains, all_nodes      *)
(***************************************************************************)
has_edge(st, g, child, parent) ==
    IF DictHas(st.nodes[g], parent)
    THEN DictHas(ChildrenOf(st, g, parent), child)
    ELSE FALSE

\* mutant: of a loop only the entry of the parents dict is deleted
remove_edge_half_loop(st, g, child, parent) ==
    IF ~DictHas(st.nodes[g], parent) THEN Raise(st, KeyError(parent))
    ELSE IF ~DictHas(st.nodes[g], child) THEN Raise(st, KeyError(child))
    ELSE IF ~DictHas(ChildrenOf(st, g, parent), child) THEN Raise(st, KeyError(child))
    ELSE IF ~DictHas(ParentsOf(st, g, child), parent) THEN Raise(st, KeyError(parent))
    ELSE IF child = parent THEN Collect(DelParent(st, g, child, parent))
    ELSE Collect(DelChild(DelParent(st, g, child, parent), g, parent, child))

\* mutant: the reverse edge goes as well
remove_edge_undirected(st, g, child, parent) ==
    IF ~DictHas(st.nodes[g], parent) THEN Raise(st, KeyError(parent))
    ELSE IF ~DictHas(st.nodes[g], child) THEN Raise(st, KeyError(child))
    ELSE IF ~DictHas(ChildrenOf(st, g, parent), child) THEN Raise(st, KeyError(child))
    ELSE IF ~DictHas(ParentsOf(st, g, child), parent) THEN Raise(st, KeyError(parent))
    ELSE LET s1 == DelChild(DelParent(st, g, child, parent), g, parent, child)
         IN  IF has_edge(s1, g, parent, child)
             THEN Collect(DelChild(DelParent(s1, g, parent, child), g, child, parent))
             ELSE Collect(s1)

\* mutant: a missing edge is passed over in silence
remove_edge_lenient(st, g, child, parent) ==
    IF ~DictHas(st.nodes[g], parent) THEN Raise(st, KeyError(parent))
    ELSE IF ~DictHas(st.nodes[g], child) THEN Raise(st, KeyError(child))
    ELSE IF ~DictHas(ChildrenOf(st, g, parent), child) THEN st
    ELSE IF ~DictHas(ParentsOf(st, g, child), parent) THEN st
    ELSE Collect(DelChild(DelParent(st, g, child, parent), g, parent, child))

remove_edge(st, g, child, parent) ==
    IF ~DictHas(st.nodes[g], parent) THEN Raise(st, KeyError(parent))
    ELSE IF ~DictHas(st.nodes[g], child) THEN Raise(st, KeyError(child))
    ELSE IF ~DictHas(ChildrenOf(st, g, parent), child) THEN Raise(st, KeyError(child))
    ELSE IF ~DictHas(ParentsOf(st, g, child), parent) THEN Raise(st, KeyError(parent))
    ELSE Collect(DelChild(DelParent(st, g, child, parent), g, parent, child))

contains(st, g, node) == DictHas(st.nodes[g], node)

all_nodes(st, g) == st.order[g]

(***************************************************************************)
(* digraph.child_nodes, digraph.parent_nodes                               *)
(* A query returns [exc, ret]: the exception it raises or its value.       *)
(***************************************************************************)
Return(v) == [exc |-> NoExc, ret |-> v]

Throw(e) == [exc |-> e, ret |-> <<>>]

\* ignore_priority(priority), for a callable ignore_priority
Ignores(ip, priority) == priority \in ip.f

\* mutant: only the last priority of the list is looked at
NotIgnoredLastOnly(priorities, i, ip) == i > 0 /\ ~Ignores(ip, priorities[i])

\* for priority in reversed(priorities): if not ignore_priority(priority): <hit>; break
RECURSIVE NotIgnoredFromEnd(_, _, _)
NotIgnoredFromEnd(priorities, i, ip) ==
    IF i = 0 THEN FALSE
    ELSE IF ~Ignores(ip, priorities[i]) THEN TRUE
    ELSE NotIgnoredFromEnd(priorities, i - 1, ip)

\* the loop of lines 172-176 (189-193) over the items of an adjacency dict
RECURSIVE CallableLoop(_, _, _, _)
CallableLoop(st, items, ip, acc) ==
    IF items = <<>> THEN Return(acc)
    ELSE LET priorities == st.heap[Head(items)[2]]
         IN  CallableLoop(st, Tail(items), ip,
                          IF NotIgnoredFromEnd(priorities, Len(priorities), ip)
                          THEN Append(acc, Head(items)[1])
                          ELSE acc)

\* the loop of lines 178-180 (195-197) over the items of an adjacency dict
RECURSIVE ThresholdLoop(_, _, _, _)
ThresholdLoop(st, items, ip, acc) ==
    IF items = <<>> THEN Return(acc)
    ELSE LET priorities == st.heap[Head(items)[2]]
         IN  IF priorities = <<>> THEN Throw(IndexError)
             ELSE ThresholdLoop(st, Tail(items), ip,
                                IF ip.t < priorities[Len(priorities)].val
                                THEN Append(acc, Head(items)[1])
                                ELSE acc)

child_nodes(st, g, node, ip) ==
    IF ~DictHas(st.nodes[g], node) THEN Throw(KeyError(node))
    ELSE IF ip.mode = "none" THEN Return(DictKeys(ChildrenOf(st, g, node)))
    ELSE IF ip.mode = "callable" THEN CallableLoop(st, ChildrenOf(st, g, node), ip, <<>>)
    ELSE ThresholdLoop(st, ChildrenOf(st, g, node), ip, <<>>)

parent_nodes(st, g, node, ip) ==
    IF ~DictHas(st.nodes[g], node) THEN Throw(KeyError(node))
    ELSE IF ip.mode = "none" THEN Return(DictKeys(ParentsOf(st, g, node)))
    ELSE IF ip.mode = "callable" THEN CallableLoop(st, ParentsOf(st, g, node), ip, <<>>)
    ELSE ThresholdLoop(st, ParentsOf(st, g, node), ip, <<>>)

(***************************************************************************)
(* digraph.leaf_nodes, digraph.root_nodes                                  *)
(***************************************************************************)
\* lines 213-220 (247-254): is_leaf_node after the loop over the items
RECURSIVE NoneCountsCallable(_, _, _)
NoneCountsCallable(st, items, ip) ==
    IF items = <<>> THEN TRUE
    ELSE LET priorities == st.heap[Head(items)[2]]
         IN  IF NotIgnoredFromEnd(priorities, Len(priorities), ip) THEN FALSE
             ELSE NoneCountsCallable(st, Tail(items), ip)

\* mutant: <= in place of <
RECURSIVE NoneCountsThresholdLE(_, _, _)
NoneCountsThresholdLE(st, items, ip) ==
    IF items = <<>> THEN "True"
    ELSE LET priorities == st.heap[Head(items)[2]]
         IN  IF priorities = <<>> THEN "IndexError"
             ELSE IF ip.t <= priorities[Len(priorities)].val THEN "False"
             ELSE NoneCountsThresholdLE(st, Tail(items), ip)

\* lines 225-229 (259-263): is_leaf_node after the loop, "IndexError" when
\* an empty list is indexed
RECURSIVE NoneCountsThreshold(_, _, _)
NoneCountsThreshold(st, items, ip) ==
    IF items = <<>> THEN "True"
    ELSE LET priorities == st.heap[Head(items)[2]]
         IN  IF priorities = <<>> THEN "IndexError"
             ELSE IF ip.t < priorities[Len(priorities)].val THEN "False"
             ELSE NoneCountsThreshold(st, Tail(items), ip)

\* the loop over self.order of leaf_nodes (side = 1) and root_nodes (side = 2)
RECURSIVE EndNodesLoop(_, _, _, _, _, _)
EndNodesLoop(st, g, side, ip, todo, acc) ==
    IF todo = <<>> THEN Return(acc)
    ELSE IF ~DictHas(st.nodes[g], Head(todo)) THEN Throw(KeyError(Head(todo)))
    ELSE LET node == Head(todo)
             items == NodeData(st, g, node)[side]
             is_end ==
                 IF ip.mode = "none" THEN IF items = <<>> THEN "True" ELSE "False"
                 ELSE IF ip.mode = "callable"
                 THEN IF NoneCountsCallable(st, items, ip) THEN "True" ELSE "False"
                 ELSE NoneCountsThreshold(st, items, ip)
         IN  IF is_end = "IndexError" THEN Throw(IndexError)
             ELSE EndNodesLoop(st, g, side, ip, Tail(todo),
                               IF is_end = "True" THEN Append(acc, node) ELSE acc)

\* mutant: leaf_nodes reads the parents
leaf_nodes_of_parents(st, g, ip) == EndNodesLoop(st, g, 2, ip, st.order[g], <<>>)

leaf_nodes(st, g, ip) == EndNodesLoop(st, g, 1, ip, st.order[g], <<>>)

root_nodes(st, g, ip) == EndNodesLoop(st, g, 2, ip, st.order[g], <<>>)

(***************************************************************************)
(* digraph.clone                                                           *)
(***************************************************************************)
\* mutant: the clone's dicts refer to the lists of the original
CloneItemsShared(acc, from, dst, owner, side, items) == [acc EXCEPT !.copy = items]

\* mutant: no memo, every dict entry gets a copy of its own
RECURSIVE CloneItemsNoMemo(_, _, _, _, _, _)
CloneItemsNoMemo(acc, from, dst, owner, side, items) ==
    IF items = <<>> THEN acc
    ELSE LET key == Head(items)[1]
             id == Head(items)[2]
             fresh == IF side = 1 THEN NewId(acc.st, dst, key, owner)
                      ELSE NewId(acc.st, dst, owner, key)
             next == [st |-> HeapSet(acc.st, fresh, from.heap[id]),
                      memo |-> acc.memo,
                      copy |-> DictSet(acc.copy, key, fresh)]
         IN  CloneItemsNoMemo(next, from, dst, owner, side, Tail(items))

\* lines 281-286 (288-293): copy one adjacency dict, acc = [st, memo, copy];
\* side = 1 for children (edge key -> owner), 2 for parents (owner -> key)
RECURSIVE CloneItems(_, _, _, _, _, _)
CloneItems(acc, from, dst, owner, side, items) ==
    IF items = <<>> THEN acc
    ELSE LET key == Head(items)[1]
             id == Head(items)[2]
             known == DictHas(acc.memo, id)
             fresh == IF side = 1 THEN NewId(acc.st, dst, key, owner)
                      ELSE NewId(acc.st, dst, owner, key)
             priorities_clone == IF known THEN DictGet(acc.memo, id) ELSE fresh
             next == [st |-> IF known THEN acc.st
                             ELSE HeapSet(acc.st, fresh, from.heap[id]),
                      memo |-> IF known THEN acc.memo
                               ELSE DictSet(acc.memo, id, fresh),
                      copy |-> DictSet(acc.copy, key, priorities_clone)]
         IN  CloneItems(next, from, dst, owner, side, Tail(items))

\* lines 279-294: the loop over self.nodes.values(), acc = [st, memo, nodes]
RECURSIVE CloneNodes(_, _, _, _)
CloneNodes(acc, from, dst, values) ==
    IF values = <<>> THEN acc
    ELSE LET node == Head(values)[2][3]
             c == CloneItems([st |-> acc.st, memo |-> acc.memo, copy |-> <<>>],
                             from, dst, node, 1, Head(values)[2][1])
             p == CloneItems([st |-> c.st, memo |-> c.memo, copy |-> <<>>],
                             from, dst, node, 2, Head(values)[2][2])
         IN  CloneNodes([st |-> p.st, memo |-> p.memo,
                         nodes |-> DictSet(acc.nodes, node, <<c.copy, p.copy, node>>)],
                        from, dst, Tail(values))

\* dst = src.clone(): the object dst named before is dropped
clone(st, src, dst) ==
    LET s0 == clear(st, dst)
        r == CloneNodes([st |-> s0, memo |-> <<>>, nodes |-> <<>>],
                        st, dst, st.nodes[src])
    IN  [r.st EXCEPT !.nodes[dst] = r.nodes, !.order[dst] = st.order[src]]

(***************************************************************************)
(* digraph.update                                                          *)
(***************************************************************************)
\* mutant: only the first priority of the list is replayed
UpdatePrioritiesFirstOnly(st, self, node, parent, priorities) ==
    IF priorities = <<>> THEN st
    ELSE add(st, self, node, parent, Head(priorities))

\* for priority in priorities: self.add(node, parent, priority=priority)
RECURSIVE UpdatePriorities(_, _, _, _, _)
UpdatePriorities(st, self, node, parent, priorities) ==
    IF priorities = <<>> THEN st
    ELSE UpdatePriorities(add(st, self, node, parent, Head(priorities)),
                          self, node, parent, Tail(priorities))

\* for parent, priorities in parents.items(): ...
RECURSIVE UpdateParents(_, _, _, _)
UpdateParents(st, self, node, items) ==
    IF items = <<>> THEN st
    ELSE UpdateParents(UpdatePriorities(st, self, node, Head(items)[1],
                                        st.heap[Head(items)[2]]),
                       self, node, Tail(items))

\* for node in other.order: ...
RECURSIVE UpdateLoop(_, _, _, _)
UpdateLoop(st, self, other, todo) ==
    IF st.exc # NoExc \/ todo = <<>> THEN st
    ELSE IF ~DictHas(st.nodes[other], Head(todo))
    THEN Raise(st, KeyError(Head(todo)))
    ELSE LET parents == ParentsOf(st, other, Head(todo))
             node == NodeData(st, other, Head(todo))[3]
         IN  UpdateLoop(IF parents # <<>>
                        THEN UpdateParents(st, self, node, parents)
                        ELSE add(st, self, node, NoneVal, RUNTIME),
                        self, other, Tail(todo))

\* self.update(other), other a different object than self
update(st, self, other) == UpdateLoop(st, self, other, st.order[other])

(***************************************************************************)
(* digraph.bfs, digraph.shortest_path, digraph.get_cycles                  *)
(* bfs iterates over a set of nodes, in an order Python does not fix (it   *)
(* varies with the hashes of the keys), so a traversal is the set of the   *)
(* results it can give, one for every order of every set it iterates.      *)
(***************************************************************************)
\* `x in self`: digraph defines __iter__ and no __contains__, so the test
\* runs over self.order
InSelf(st, g, x) == \E i \in 1..Len(st.order[g]) : st.order[g][i] = x

\* the orders in which a set can be iterated
Perms(S) ==
    {s \in [1..Cardinality(S) -> S] : \A i, j \in 1..Cardinality(S) : s[i] = s[j] => i = j}

\* mutant: the new pairs go to the front of the queue
RECURSIVE BfsLoopDepthFirst(_, _, _, _, _, _)
BfsLoopDepthFirst(st, g, ip, queue, enqueued, yielded) ==
    IF queue = <<>> THEN {Return(yielded)}
    ELSE LET n == Head(queue)[2]
             out == Append(yielded, Head(queue))
             cn == child_nodes(st, g, n, ip)
         IN  IF cn.exc # NoExc THEN {[exc |-> cn.exc, ret |-> out]}
             ELSE LET new == Elems(cn.ret) \ enqueued
                  IN  UNION {BfsLoopDepthFirst(st, g, ip,
                                     [i \in 1..Len(it) |-> <<n, it[i]>>] \o Tail(queue),
                                     enqueued \cup new, out)
                             : it \in Perms(new)}

\* the while loop of bfs; `yielded` is the pairs the generator has yielded
RECURSIVE BfsLoop(_, _, _, _, _, _)
BfsLoop(st, g, ip, queue, enqueued, yielded) ==
    IF queue = <<>> THEN {Return(yielded)}
    ELSE LET n == Head(queue)[2]
             out == Append(yielded, Head(queue))
             cn == child_nodes(st, g, n, ip)
         IN  IF cn.exc # NoExc THEN {[exc |-> cn.exc, ret |-> out]}
             ELSE LET new == Elems(cn.ret) \ enqueued
                  IN  UNION {BfsLoop(st, g, ip,
                                     Tail(queue) \o [i \in 1..Len(it) |-> <<n, it[i]>>],
                                     enqueued \cup new, out)
                             : it \in Perms(new)}

\* list(self.bfs(start, ignore_priority)): the pairs (parent, node) yielded
bfs(st, g, start, ip) ==
    IF ~InSelf(st, g, start) THEN {Throw(KeyError(start))}
    ELSE BfsLoop(st, g, ip, <<<<NoneVal, start>>>>, {start}, <<>>)

\* what shortest_path returns: None, or a path
NoPath == <<>>
Found(path) == <<path>>

\* mutant: the path returned stops at the parent of `end`
RECURSIVE PathLoopDropsEnd(_, _, _, _)
PathLoopDropsEnd(run, end, i, paths) ==
    IF i > Len(run.ret)
    THEN IF run.exc # NoExc THEN Throw(run.exc) ELSE Return(NoPath)
    ELSE LET parent == run.ret[i][1]
             child == run.ret[i][2]
             path == Append(DictGet(paths, parent), child)
         IN  IF child = end THEN Return(Found(DictGet(paths, parent)))
             ELSE PathLoopDropsEnd(run, end, i + 1, DictSet(paths, child, path))

\* the for loop of shortest_path over the pairs bfs yields, from the i-th on
RECURSIVE PathLoop(_, _, _, _)
PathLoop(run, end, i, paths) ==
    IF i > Len(run.ret)
    THEN IF run.exc # NoExc THEN Throw(run.exc) ELSE Return(NoPath)
    ELSE LET parent == run.ret[i][1]
             child == run.ret[i][2]
             path == Append(DictGet(paths, parent), child)
         IN  IF child = end THEN Return(Found(path))
             ELSE PathLoop(run, end, i + 1, DictSet(paths, child, path))

shortest_path(st, g, start, end, ip) ==
    IF ~InSelf(st, g, start) THEN {Throw(KeyError(start))}
    ELSE IF ~InSelf(st, g, end) THEN {Throw(KeyError(end))}
    ELSE {PathLoop(run, end, 1, <<<<NoneVal, <<>>>>>>) : run \in bfs(st, g, start, ip)}

\* max_length: None, or an integer
NoMax == <<>>
MaxLength(k) == <<k>>

\* `not max_length`
NotMax(max_length) == max_length = NoMax \/ max_length[1] = 0

\* mutant: a path as long as the shortest so far is passed over
RECURSIVE CandidatesLoopStrict(_, _, _, _, _, _, _)
CandidatesLoopStrict(st, g, ip, node, children, shortest, candidates) ==
    IF children = <<>>
    THEN {[exc |-> NoExc, shortest |-> shortest, candidates |-> candidates]}
    ELSE UNION {
           IF r.exc # NoExc
           THEN {[exc |-> r.exc, shortest |-> shortest, candidates |-> candidates]}
           ELSE IF r.ret = NoPath
           THEN CandidatesLoopStrict(st, g, ip, node, Tail(children), shortest, candidates)
           ELSE IF shortest = <<>> \/ Len(shortest) > Len(r.ret[1])
           THEN CandidatesLoopStrict(st, g, ip, node, Tail(children),
                                     r.ret[1], Append(candidates, r.ret[1]))
           ELSE CandidatesLoopStrict(st, g, ip, node, Tail(children), shortest, candidates)
           : r \in shortest_path(st, g, Head(children), node, ip)}

\* lines 389-395, the loop over the children of `node`; shortest_path = None
\* is <<>>, which `not shortest_path` treats as it treats None
RECURSIVE CandidatesLoop(_, _, _, _, _, _, _)
CandidatesLoop(st, g, ip, node, children, shortest, candidates) ==
    IF children = <<>>
    THEN {[exc |-> NoExc, shortest |-> shortest, candidates |-> candidates]}
    ELSE UNION {
           IF r.exc # NoExc
           THEN {[exc |-> r.exc, shortest |-> shortest, candidates |-> candidates]}
           ELSE IF r.ret = NoPath
           THEN CandidatesLoop(st, g, ip, node, Tail(children), shortest, candidates)
           ELSE IF shortest = <<>> \/ Len(shortest) >= Len(r.ret[1])
           THEN CandidatesLoop(st, g, ip, node, Tail(children),
                               r.ret[1], Append(candidates, r.ret[1]))
           ELSE CandidatesLoop(st, g, ip, node, Tail(children), shortest, candidates)
           : r \in shortest_path(st, g, Head(children), node, ip)}

\* lines 383-399, the loop over self.nodes
RECURSIVE CyclesLoop(_, _, _, _, _, _)
CyclesLoop(st, g, ip, max_length, todo, all_cycles) ==
    IF todo = <<>> THEN {Return(all_cycles)}
    ELSE LET cn == child_nodes(st, g, Head(todo), ip)
         IN  IF cn.exc # NoExc THEN {Throw(cn.exc)}
             ELSE UNION {
                    IF c.exc # NoExc THEN {Throw(c.exc)}
                    ELSE CyclesLoop(st, g, ip, max_length, Tail(todo),
                           IF /\ c.shortest # <<>>
                              /\ (NotMax(max_length) \/ Len(c.shortest) <= max_length[1])
                           THEN all_cycles \o
                                SelectSeq(c.candidates,
                                          LAMBDA path : Len(path) = Len(c.shortest))
                           ELSE all_cycles)
                    : c \in CandidatesLoop(st, g, ip, Head(todo), cn.ret, <<>>, <<>>)}

\* mutant: the first node of self.nodes is passed over
get_cycles_skips_first(st, g, ip, max_length) ==
    CyclesLoop(st, g, ip, max_length,
               SubSeq(DictKeys(st.nodes[g]), 2, Len(st.nodes[g])), <<>>)

get_cycles(st, g, ip, max_length) ==
    CyclesLoop(st, g, ip, max_length, DictKeys(st.nodes[g]), <<>>)

(***************************************************************************)
(* The traversals, one loop iteration at a time.  A run is the record      *)
(*   op        "bfs", "shortest_path" or "get_cycles"                      *)
(*   ip        ignore_priority                                             *)
(*   todo      get_cycles: the nodes of self.nodes still to come           *)
(*   node      get_cycles: the node of the current iteration               *)
(*   children  get_cycles: the children of `node` still to come            *)
(*   end       shortest_path: the node at which it returns                 *)
(*   queue, enqueued   the locals of bfs; the generator is exhausted or    *)
(*             closed when queue is empty                                  *)
(*   visited   the nodes the current bfs has yielded                       *)
(*   exc       the exception raised, NoExc when none                       *)
(***************************************************************************)
Run(op, ip) ==
    [op |-> op, ip |-> ip, todo |-> <<>>, node |-> NoneVal, children |-> <<>>,
     end |-> NoneVal, queue |-> <<>>, enqueued |-> {}, visited |-> <<>>,
     exc |-> NoExc]

\* line 356: queue, enqueued = deque([(None, start)]), {start}
BfsEnter(run, start, end) ==
    [run EXCEPT !.end = end, !.queue = <<<<NoneVal, start>>>>,
                !.enqueued = {start}, !.visited = <<>>]

\* mutant: every child is new, enqueued before or not
NewOrOld(children, enqueued) == Elems(children)

\* line 360: new = set(self.child_nodes(n, ignore_priority)) - enqueued
New(children, enqueued) == Elems(children) \ enqueued

\* lines 358-362, one iteration of the while loop of bfs, for every order in
\* which `new` can be iterated; lines 373-374: shortest_path returns at the
\* pair of `end`, which closes the generator
BfsIteration(st, g, run) ==
    LET n == Head(run.queue)[2]
        out == [run EXCEPT !.visited = Append(@, n)]
        cn == child_nodes(st, g, n, run.ip)
    IN  IF n = run.end THEN {[out EXCEPT !.queue = <<>>]}
        ELSE IF cn.exc # NoExc
        THEN {[out EXCEPT !.queue = <<>>, !.todo = <<>>, !.children = <<>>,
                          !.exc = cn.exc]}
        ELSE {[out EXCEPT !.queue = Tail(run.queue) \o
                                      [i \in 1..Len(it) |-> <<n, it[i]>>],
                          !.enqueued = @ \cup New(cn.ret, run.enqueued)]
              : it \in Perms(New(cn.ret, run.enqueued))}

\* lines 383 and 389, one iteration of a for loop of get_cycles: the next
\* child of `node` and the call shortest_path(child, node), or the next node
\* of self.nodes and its children
CyclesIteration(st, g, run) ==
    IF run.children # <<>>
    THEN [BfsEnter(run, Head(run.children), run.node)
             EXCEPT !.children = Tail(run.children)]
    ELSE LET cn == child_nodes(st, g, Head(run.todo), run.ip)
         IN  IF cn.exc # NoExc
             THEN [run EXCEPT !.todo = <<>>, !.exc = cn.exc]
             ELSE [run EXCEPT !.todo = Tail(run.todo), !.node = Head(run.todo),
                              !.children = cn.ret]

(***************************************************************************)
(* _emerge.DepPriority.  An object is the record of the truth values of    *)
(* the attributes __int__ and __str__ read; `cross` and `satisfied` are    *)
(* read by neither.                                                        *)
(***************************************************************************)
DepPriorities ==
    [buildtime_slot_op : BOOLEAN, buildtime : BOOLEAN, runtime_slot_op : BOOLEAN,
     runtime : BOOLEAN, runtime_post : BOOLEAN, optional : BOOLEAN,
     ignored : BOOLEAN]

\* DepPriority.__int__
DepPriority_int(self) ==
    IF self.optional THEN -5
    ELSE IF self.buildtime_slot_op THEN 0
    ELSE IF self.buildtime THEN -1
    ELSE IF self.runtime_slot_op THEN -2
    ELSE IF self.runtime THEN -3
    ELSE IF self.runtime_post THEN -4
    ELSE -6

\* DepPriority.__str__
DepPriority_str(self) ==
    IF self.ignored THEN "ignored"
    ELSE IF self.optional THEN "optional"
    ELSE IF self.buildtime_slot_op THEN "buildtime_slot_op"
    ELSE IF self.buildtime THEN "buildtime"
    ELSE IF self.runtime_slot_op THEN "runtime_slot_op"
    ELSE IF self.runtime THEN "runtime"
    ELSE IF self.runtime_post THEN "runtime_post"
    ELSE "soft"

(***************************************************************************)
(* The calls.  `last` is the call made last and the exception it raised;   *)
(* `script` counts the leading calls of the sequence                       *)
(*     g = digraph(); g.add("pkgA", "pkgB", RUNTIME);                      *)
(*     g.add("pkgB", "pkgC", RUNTIME)                                      *)
(* made so far with no other call in between.                              *)
(***************************************************************************)
Call(op, g, node, parent, priority, t, other) ==
    [op |-> op, g |-> g, node |-> node, parent |-> parent,
     priority |-> priority, t |-> t, other |-> other, exc |-> NoExc]

RECURSIVE Entries(_, _)
Entries(h, ids) ==
    IF ids = {} THEN 0
    ELSE LET id == CHOOSE x \in ids : TRUE
         IN  Len(h[id]) + Entries(h, ids \ {id})

\* the lists created for graph g
ListsOf(st, g) == {id \in DOMAIN st.heap : id[1] = g}

\* the bounds: MaxHeap binds once both graphs hold nodes
Within(st) ==
    /\ \A g \in GraphIds :
          /\ Len(st.order[g]) <= MaxNodes
          /\ Entries(st.heap, ListsOf(st, g)) <= MaxEntries
    /\ (\A g \in GraphIds : st.order[g] # <<>>) =>
          Entries(st.heap, DOMAIN st.heap) <= MaxHeap

IsEmpty(st, g) == st.nodes[g] = <<>> /\ st.order[g] = <<>>

(***************************************************************************)
(* digraph.update, one loop iteration at a time, for any `other`, self     *)
(* included: the loops read other.order, the dict `parents` and the list   *)
(* `priorities` as they are when the iteration is made, and add changes    *)
(* them when other is self.  A merge is the record                         *)
(*   op      "update"                                                      *)
(*   g, other   self and other                                             *)
(*   i, j, k    the positions of the iterators over other.order, over      *)
(*           parents.items() and over priorities, from 1                   *)
(*   before  the graphs when update was called                             *)
(*   over    the call has returned or raised                               *)
(*   exc     the exception raised, NoExc when none                         *)
(***************************************************************************)
MemoryError == [type |-> "MemoryError", arg |-> NoneVal]

Merge(st, self, other) ==
    [op |-> "update", g |-> self, other |-> other, i |-> 1, j |-> 1, k |-> 1,
     before |-> [nodes |-> st.nodes, order |-> st.order, heap |-> st.heap],
     over |-> FALSE, exc |-> NoExc]

\* `priorities` of line 87, the list object itself
PrioritiesLive(st, run, id) == st.heap[id]

\* one step of lines 83-90: the next iteration of the innermost loop that
\* has one left, [st, run] after it; a list beyond MaxMemory entries is
\* beyond what memory holds
UpdateIteration(st, run) ==
    LET order_ == st.order[run.other]
        node == order_[run.i]
        parents == ParentsOf(st, run.other, node)
        priorities == PrioritiesLive(st, run, parents[run.j][2])
        added == add(st, run.g, node, parents[run.j][1], priorities[run.k])
    IN  IF run.i > Len(order_)
        THEN [st |-> st, run |-> [run EXCEPT !.over = TRUE]]
        ELSE IF parents = <<>>
        THEN [st |-> add(st, run.g, node, NoneVal, RUNTIME),
              run |-> [run EXCEPT !.i = @ + 1]]
        ELSE IF run.j > Len(parents)
        THEN [st |-> st, run |-> [run EXCEPT !.i = @ + 1, !.j = 1, !.k = 1]]
        ELSE IF run.k > Len(priorities)
        THEN [st |-> st, run |-> [run EXCEPT !.j = @ + 1, !.k = 1]]
        ELSE IF Entries(added.heap, DOMAIN added.heap) > MaxMemory
        THEN [st |-> st, run |-> [run EXCEPT !.over = TRUE, !.exc = MemoryError]]
        ELSE [st |-> added, run |-> [run EXCEPT !.k = @ + 1]]

ScriptAfter(c) ==
    IF /\ IsEmpty(Cur, "g")
       /\ c = Call("add", "g", "pkgA", "pkgB", RUNTIME, {}, "g")
    THEN 1
    ELSE IF /\ script = 1
            /\ c = Call("add", "g", "pkgB", "pkgC", RUNTIME, {}, "g")
    THEN 2
    ELSE 0

Finish(res, c) ==
    \E r \in {res} :
        /\ Within(r)
        /\ nodes' = r.nodes
        /\ order' = r.order
        /\ heap' = r.heap
        /\ last' = [c EXCEPT !.exc = r.exc]
        /\ script' = ScriptAfter(c)

Init ==
    /\ nodes = [g \in GraphIds |-> <<>>]
    /\ order = [g \in GraphIds |-> <<>>]
    /\ heap = [id \in {} |-> <<>>]
    /\ last = Call("digraph", "g", NoneVal, NoneVal, RUNTIME, {}, "g")
    /\ script = 0

Add(g, node, parent, priority) ==
    /\ parent = NoneVal => priority = RUNTIME
    /\ Finish(add(Cur, g, node, parent, priority),
              Call("add", g, node, parent, priority, {}, g))

Remove(g, node) ==
    /\ g \in GraphIds
    /\ Finish(remove(Cur, g, node), Call("remove", g, node, NoneVal, RUNTIME, {}, g))

Discard(g, node) ==
    /\ g \in GraphIds
    /\ Finish(discard(Cur, g, node), Call("discard", g, node, NoneVal, RUNTIME, {}, g))

Remove_edge(g, child, parent) ==
    /\ g \in GraphIds
    /\ Finish(remove_edge(Cur, g, child, parent),
       Call("remove_edge", g, child, parent, RUNTIME, {}, g))

Update(g, other) ==
    /\ g # other
    /\ Finish(update(Cur, g, other), Call("update", g, NoneVal, NoneVal, RUNTIME, {}, other))

Clear(g) ==
    /\ g \in GraphIds
    /\ Finish(clear(Cur, g), Call("clear", g, NoneVal, NoneVal, RUNTIME, {}, g))

Difference_update(g, t) ==
    /\ g \in GraphIds
    /\ Finish(difference_update(Cur, g, t),
       Call("difference_update", g, NoneVal, NoneVal, RUNTIME, t, g))

Clone(g, other) ==
    /\ g # other
    /\ Finish(clone(Cur, other, g), Call("clone", g, NoneVal, NoneVal, RUNTIME, {}, other))

Next ==
    \E g \in GraphIds :
        \/ \E node \in TwoNodes, parent \in TwoNodes \cup {NoneVal},
              priority \in TwoPriorities :
              Add(g, node, parent, priority)
        \/ \E node \in TwoNodes : Remove(g, node)
        \/ \E node \in TwoNodes : Discard(g, node)
        \/ \E child \in TwoNodes, parent \in TwoNodes : Remove_edge(g, child, parent)
        \/ \E other \in GraphIds : Update(g, other)
        \/ Clear(g)
        \/ \E t \in SUBSET TwoNodes : Difference_update(g, t)
        \/ \E other \in GraphIds : Clone(g, other)

\* both graphs, every call, two node keys and two priorities
Spec == Init /\ [][Next]_vars

Calls(N, P) ==
    \/ \E node \in N, parent \in N \cup {NoneVal}, priority \in P :
          Add("g", node, parent, priority)
    \/ \E node \in N : Remove("g", node)
    \/ \E node \in N : Discard("g", node)
    \/ \E child \in N, parent \in N : Remove_edge("g", child, parent)
    \/ Clear("g")
    \/ \E t \in SUBSET N : Difference_update("g", t)

NextNodes == Calls(Nodes \ {""}, {RUNTIME})

\* one graph, three node keys, one priority
SpecNodes == Init /\ [][NextNodes]_vars

NextPriorities == Calls({"pkgA", "pkgB"}, Priorities)

\* one graph, two node keys, three priorities
SpecPriorities == Init /\ [][NextPriorities]_vars

NextFalsy == Calls({"", "pkgA"}, Priorities)

\* one graph, the key that is false and one that is true, three priorities
SpecFalsy == Init /\ [][NextFalsy]_vars

\* the calls add(node, parent, priority) of the traversal specification: an
\* edge of RUNTIME between any two of three nodes, a loop on pkgA, and a
\* fourth node pkgD between pkgB and pkgA, on edges of BUILDTIME
Links ==
    {<<c, p, RUNTIME>> : <<c, p>> \in
        {e \in {"pkgA", "pkgB", "pkgC"} \X {"pkgA", "pkgB", "pkgC"} : e[1] # e[2]}}
    \cup {<<"pkgA", "pkgA", RUNTIME>>,
          <<"pkgD", "pkgB", BUILDTIME>>,
          <<"pkgA", "pkgD", BUILDTIME>>}

TraversalNodes == {"pkgA", "pkgB", "pkgC", "pkgD"}

\* g.add(node, parent, priority) for an edge the graph does not hold yet
\* (adding it again would change nothing), up to MaxLinks edges
AddLink(node, parent, priority) ==
    /\ <<node, parent, priority>> \in Links
    /\ ~has_edge(Cur, "g", node, parent)
    /\ \E r \in {add(Cur, "g", node, parent, priority)} :
          /\ Entries(r.heap, DOMAIN r.heap) <= MaxLinks
          /\ nodes' = r.nodes
          /\ order' = r.order
          /\ heap' = r.heap
          /\ last' = [Call("add", "g", node, parent, priority, {}, "g") EXCEPT !.exc = r.exc]
          /\ script' = ScriptAfter(Call("add", "g", node, parent, priority, {}, "g"))

NextTraversal == \E l \in Links : AddLink(l[1], l[2], l[3])

\* one graph of up to four nodes and MaxLinks edges, built by add
SpecTraversal == Init /\ [][NextTraversal]_vars

\* the filters of the runs
RunFilters == {NoFilter, Predicate({RUNTIME})}

\* no traversal has been started
Building == last.op \in {"digraph", "add"}

\* g.add(node, parent, priority) while the graph holds fewer than MaxRunLinks
\* edges and no traversal has been started
Build(node, parent, priority) ==
    /\ Building
    /\ Entries(heap, DOMAIN heap) < MaxRunLinks
    /\ AddLink(node, parent, priority)

\* it = g.bfs(start, ip), up to the first next(it)
StartBfs(start, ip) ==
    /\ Building
    /\ last' = IF ~InSelf(Cur, "g", start)
               THEN [Run("bfs", ip) EXCEPT !.exc = KeyError(start)]
               ELSE BfsEnter(Run("bfs", ip), start, NoneVal)
    /\ UNCHANGED <<nodes, order, heap, script>>

\* g.shortest_path(start, end, ip), up to the for loop
StartShortestPath(start, end, ip) ==
    /\ Building
    /\ last' = IF ~InSelf(Cur, "g", start)
               THEN [Run("shortest_path", ip) EXCEPT !.exc = KeyError(start)]
               ELSE IF ~InSelf(Cur, "g", end)
               THEN [Run("shortest_path", ip) EXCEPT !.exc = KeyError(end)]
               ELSE BfsEnter(Run("shortest_path", ip), start, end)
    /\ UNCHANGED <<nodes, order, heap, script>>

\* g.get_cycles(ip), up to the for loop
StartGetCycles(ip) ==
    /\ Building
    /\ last' = [Run("get_cycles", ip) EXCEPT !.todo = DictKeys(nodes["g"])]
    /\ UNCHANGED <<nodes, order, heap, script>>

\* one iteration of the while loop of bfs
BfsStep ==
    /\ ~Building
    /\ last.queue # <<>>
    /\ \E run \in BfsIteration(Cur, "g", last) : last' = run
    /\ UNCHANGED <<nodes, order, heap, script>>

\* one iteration of a for loop of get_cycles, between two calls of
\* shortest_path
CyclesStep ==
    /\ ~Building
    /\ last.queue = <<>>
    /\ last.children # <<>> \/ last.todo # <<>>
    /\ last' = CyclesIteration(Cur, "g", last)
    /\ UNCHANGED <<nodes, order, heap, script>>

RunStep == BfsStep \/ CyclesStep

NextRuns ==
    \/ \E l \in Links : Build(l[1], l[2], l[3])
    \/ \E start \in TraversalNodes, ip \in RunFilters : StartBfs(start, ip)
    \/ \E start \in TraversalNodes, end \in TraversalNodes, ip \in RunFilters :
          StartShortestPath(start, end, ip)
    \/ \E ip \in RunFilters : StartGetCycles(ip)
    \/ BfsStep
    \/ CyclesStep

\* a graph of up to MaxRunLinks edges, and one traversal of it run to its
\* end: a loop that can make its next iteration does make it
SpecRuns == Init /\ [][NextRuns]_vars /\ WF_vars(RunStep)

\* g.add(node, parent, priority) before any update
Prepare(g, node, parent, priority) ==
    /\ Building
    /\ Add(g, node, parent, priority)

\* g.update(other), up to the first iteration; other can be g
StartUpdate(g, other) ==
    /\ Building
    /\ last' = Merge(Cur, g, other)
    /\ UNCHANGED <<nodes, order, heap, script>>

\* one loop iteration of update
UpdateStep ==
    /\ last.op = "update"
    /\ ~last.over
    /\ \E r \in {UpdateIteration(Cur, last)} :
          /\ nodes' = r.st.nodes
          /\ order' = r.st.order
          /\ heap' = r.st.heap
          /\ last' = r.run
    /\ script' = 0

NextMerges ==
    \/ \E g \in GraphIds, node \in TwoNodes, parent \in TwoNodes \cup {NoneVal},
          priority \in TwoPriorities : Prepare(g, node, parent, priority)
    \/ \E g \in GraphIds, other \in GraphIds : StartUpdate(g, other)
    \/ UpdateStep

\* an update is under way: the states in which UpdateStep is enabled
Merging == last.op = "update" /\ ~last.over

\* two graphs built by add, and one update of one with either run to its
\* end: a loop that can make its next iteration does make it, which is
\* WF_vars(UpdateStep) with ENABLED <<UpdateStep>>_vars written as Merging
SpecMerges ==
    Init /\ [][NextMerges]_vars /\ ([]<>~Merging \/ []<><<UpdateStep>>_vars)

\* p = DepPriority(**flags): no graph, `last` holds the object made
InitDepPriority ==
    /\ nodes = [g \in GraphIds |-> <<>>]
    /\ order = [g \in GraphIds |-> <<>>]
    /\ heap = [id \in {} |-> <<>>]
    /\ \E p \in DepPriorities :
          last = [op |-> "DepPriority", self |-> p, ret |-> NoneVal, exc |-> NoExc]
    /\ script = 0

\* int(p)
CallInt ==
    /\ last' = [last EXCEPT !.op = "__int__", !.ret = DepPriority_int(last.self)]
    /\ UNCHANGED <<nodes, order, heap, script>>

\* str(p)
CallStr ==
    /\ last' = [last EXCEPT !.op = "__str__", !.ret = DepPriority_str(last.self)]
    /\ UNCHANGED <<nodes, order, heap, script>>

NextDepPriority == CallInt \/ CallStr

\* one priority object of any attributes, and the calls int and str on it
SpecDepPriority == InitDepPriority /\ [][NextDepPriority]_vars

(***************************************************************************)
(* Properties.                                                             *)
(***************************************************************************)
NoDuplicates(s) == \A i, j \in 1..Len(s) : s[i] = s[j] => i = j

\* p is in parent_nodes(c), false when c is absent
InParentNodes(st, g, c, p, ip) ==
    /\ contains(st, g, c)
    /\ \E res \in {parent_nodes(st, g, c, ip)} :
          res.exc = NoExc /\ p \in Elems(res.ret)

\* c is in child_nodes(p), false when p is absent
InChildNodes(st, g, p, c, ip) ==
    /\ contains(st, g, p)
    /\ \E res \in {child_nodes(st, g, p, ip)} :
          res.exc = NoExc /\ c \in Elems(res.ret)

\* C1: in every reachable graph, for all nodes c and p, has_edge(c, p) iff
\* p is in parent_nodes(c) iff c is in child_nodes(p)
Symmetry ==
    \A g \in GraphIds, c \in Nodes, p \in Nodes :
        /\ has_edge(Cur, g, c, p) <=> InParentNodes(Cur, g, c, p, NoFilter)
        /\ InParentNodes(Cur, g, c, p, NoFilter) <=> InChildNodes(Cur, g, p, c, NoFilter)

\* an update has copied an edge that has no reverse edge from the other graph
SymmetryWitness ==
    /\ last.op = "update"
    /\ last.exc = NoExc
    /\ \E c \in Nodes, p \in Nodes :
          /\ c # p
          /\ has_edge(Cur, last.other, c, p)
          /\ has_edge(Cur, last.g, c, p)
          /\ InParentNodes(Cur, last.g, c, p, NoFilter)
          /\ ~has_edge(Cur, last.g, p, c)

\* C2: in every reachable graph the keys of `nodes` are the elements of
\* `order`, and `order` holds no node twice
NodesOrderBijection ==
    \A g \in GraphIds :
        /\ DictKeySet(nodes[g]) = Elems(order[g])
        /\ NoDuplicates(order[g])
        /\ NoDuplicates(DictKeys(nodes[g]))

\* a remove has succeeded and left other nodes in the graph
NodesOrderBijectionWitness ==
    /\ last.op = "remove"
    /\ last.exc = NoExc
    /\ Len(order[last.g]) >= 1
    /\ order[last.g] = DictKeys(nodes[last.g])

\* C3: after remove(n) succeeds, contains(n) is false, n is not in
\* all_nodes(), and no remaining node has n among its child_nodes or
\* parent_nodes
RemovalCompleteness ==
    (last.op = "remove" /\ last.exc = NoExc) =>
        LET g == last.g
            n == last.node
        IN  /\ ~contains(Cur, g, n)
            /\ n \notin Elems(all_nodes(Cur, g))
            /\ \A m \in Elems(all_nodes(Cur, g)) :
                  /\ child_nodes(Cur, g, m, NoFilter).exc = NoExc
                  /\ parent_nodes(Cur, g, m, NoFilter).exc = NoExc
                  /\ n \notin Elems(child_nodes(Cur, g, m, NoFilter).ret)
                  /\ n \notin Elems(parent_nodes(Cur, g, m, NoFilter).ret)

\* a remove has succeeded and two nodes, joined by an edge, remain
RemovalCompletenessWitness ==
    /\ last.op = "remove"
    /\ last.exc = NoExc
    /\ Len(order[last.g]) = 2
    /\ \E c \in Nodes, p \in Nodes : c # p /\ has_edge(Cur, last.g, c, p)

\* C4 as stated: after add("pkgA", "pkgB", RUNTIME) and add("pkgB",
\* "pkgC", RUNTIME) on an empty graph, leaf_nodes() is ["pkgC"] and
\* root_nodes() is ["pkgA"]
ScenarioLeafIsPkgC ==
    script = 2 =>
        /\ leaf_nodes(Cur, "g", NoFilter) = Return(<<"pkgC">>)
        /\ root_nodes(Cur, "g", NoFilter) = Return(<<"pkgA">>)

\* C4, amended: after the two calls leaf_nodes() is ["pkgA"], the node
\* with no children, and root_nodes() is ["pkgC"], the node with no parents
ScenarioLeafIsPkgA ==
    script = 2 =>
        /\ leaf_nodes(Cur, "g", NoFilter) = Return(<<"pkgA">>)
        /\ root_nodes(Cur, "g", NoFilter) = Return(<<"pkgC">>)

\* the two calls of the scenario have been made on an empty graph
ScenarioWitness ==
    /\ script = 2
    /\ last.op = "add"
    /\ order["g"] = <<"pkgA", "pkgB", "pkgC">>

\* the state after the step
Nxt == [nodes |-> nodes', order |-> order', heap |-> heap', exc |-> NoExc]

EdgeSet(st, g) == {e \in Nodes \X Nodes : has_edge(st, g, e[1], e[2])}

\* C5 as stated: add(node, parent, priority) with any parent but None
\* leaves node and parent contained and has_edge(node, parent) true, also
\* when the parent is a key that is false; with parent None it creates no
\* edge, and the node it adds to an empty graph is a leaf and a root
AddCreatesEdgeUnlessNone ==
    [][last'.op = "add" =>
          LET g == last'.g
              n == last'.node
              p == last'.parent
          IN  IF p # NoneVal
              THEN /\ contains(Nxt, g, n)
                   /\ contains(Nxt, g, p)
                   /\ has_edge(Nxt, g, n, p)
              ELSE /\ contains(Nxt, g, n)
                   /\ EdgeSet(Nxt, g) = EdgeSet(Cur, g)
                   /\ IsEmpty(Cur, g) =>
                         /\ n \in Elems(leaf_nodes(Nxt, g, NoFilter).ret)
                         /\ n \in Elems(root_nodes(Nxt, g, NoFilter).ret)]_vars

\* the priority list of edge (c, p) as child c sees it, and as parent p does
ParentsView(st, g, c, p) ==
    IF DictHas(st.nodes[g], c) /\ DictHas(ParentsOf(st, g, c), p)
    THEN st.heap[DictGet(ParentsOf(st, g, c), p)]
    ELSE <<>>

ChildrenView(st, g, c, p) ==
    IF DictHas(st.nodes[g], p) /\ DictHas(ChildrenOf(st, g, p), c)
    THEN st.heap[DictGet(ChildrenOf(st, g, p), c)]
    ELSE <<>>

\* the hardest of the priorities of a list that is not empty
MaxVal(l) == CHOOSE v \in {l[i].val : i \in 1..Len(l)} :
                \A i \in 1..Len(l) : l[i].val <= v

\* with a threshold t a neighbour is listed iff the hardest priority the
\* edge holds exceeds t
ThresholdByMax ==
    \A c \in Nodes, p \in Nodes :
        has_edge(Cur, "g", c, p) =>
            \A t \in Thresholds :
                /\ InChildNodes(Cur, "g", p, c, Threshold(t))
                      <=> MaxVal(ChildrenView(Cur, "g", c, p)) > t
                /\ InParentNodes(Cur, "g", c, p, Threshold(t))
                      <=> MaxVal(ParentsView(Cur, "g", c, p)) > t

\* add(c, p, q) makes the edge pass a threshold t iff it passed before or
\* q exceeds t, so the edge passes iff some priority ever added to it does
AddKeepsHardest ==
    (last'.op = "add" /\ ~Falsy(last'.parent)) =>
        LET c == last'.node
            p == last'.parent
            q == last'.priority
        IN  \A t \in Thresholds :
                /\ InChildNodes(Nxt, "g", p, c, Threshold(t))
                      <=> (InChildNodes(Cur, "g", p, c, Threshold(t)) \/ q.val > t)
                /\ InParentNodes(Nxt, "g", c, p, Threshold(t))
                      <=> (InParentNodes(Cur, "g", c, p, Threshold(t)) \/ q.val > t)

\* C6: child_nodes and parent_nodes with a threshold t include a neighbour
\* iff the hardest priority ever added to the edge exceeds t, so a softer
\* priority added before or after a harder one does not change the result
ThresholdUsesHardest == []ThresholdByMax /\ [][AddKeepsHardest]_vars

\* an add has put a softer priority on an edge that held a harder one
ThresholdWitness ==
    /\ last.op = "add"
    /\ has_edge(Cur, "g", last.node, last.parent)
    /\ Len(ParentsView(Cur, "g", last.node, last.parent)) = 2
    /\ last.priority.val < MaxVal(ParentsView(Cur, "g", last.node, last.parent))
    /\ last.priority \in Elems(ParentsView(Cur, "g", last.node, last.parent))

\* C7: with a predicate f, child_nodes and parent_nodes leave a neighbour
\* out iff every priority on the edge satisfies f, and list no neighbour twice
PredicateFiltering ==
    \A n \in Elems(order["g"]), f \in SUBSET Priorities :
        /\ child_nodes(Cur, "g", n, Predicate(f)).exc = NoExc
        /\ parent_nodes(Cur, "g", n, Predicate(f)).exc = NoExc
        /\ NoDuplicates(child_nodes(Cur, "g", n, Predicate(f)).ret)
        /\ NoDuplicates(parent_nodes(Cur, "g", n, Predicate(f)).ret)
        /\ \A m \in Nodes :
              /\ m \in Elems(child_nodes(Cur, "g", n, Predicate(f)).ret) <=>
                    /\ has_edge(Cur, "g", m, n)
                    /\ ~(Elems(ChildrenView(Cur, "g", m, n)) \subseteq f)
              /\ m \in Elems(parent_nodes(Cur, "g", n, Predicate(f)).ret) <=>
                    /\ has_edge(Cur, "g", n, m)
                    /\ ~(Elems(ParentsView(Cur, "g", n, m)) \subseteq f)

\* an edge holds a priority that a predicate ignores above one it does not,
\* and the predicate leaves the neighbour in
PredicateWitness ==
    /\ last.op = "add"
    /\ \E c \in Nodes, p \in Nodes :
          /\ c # p
          /\ has_edge(Cur, "g", c, p)
          /\ ParentsView(Cur, "g", c, p) = <<RUNTIME, BUILDTIME>>
          /\ InChildNodes(Cur, "g", p, c, Predicate({BUILDTIME}))
          /\ InParentNodes(Cur, "g", c, p, Predicate({BUILDTIME}))
          /\ ~InChildNodes(Cur, "g", p, c, Predicate({RUNTIME, BUILDTIME}))

\* C8: for every ignore_priority, leaf_nodes is the nodes of `order` whose
\* child_nodes is empty, root_nodes those whose parent_nodes is empty
LeafRootByNeighbours ==
    \A ip \in Filters :
        /\ leaf_nodes(Cur, "g", ip) =
              Return(SelectSeq(order["g"],
                               LAMBDA n : child_nodes(Cur, "g", n, ip) = Return(<<>>)))
        /\ root_nodes(Cur, "g", ip) =
              Return(SelectSeq(order["g"],
                               LAMBDA n : parent_nodes(Cur, "g", n, ip) = Return(<<>>)))

\* a threshold and a predicate each make a node a leaf that has a child
LeafRootWitness ==
    /\ last.op = "add"
    /\ Len(order["g"]) = 2
    /\ leaf_nodes(Cur, "g", NoFilter).ret # order["g"]
    /\ leaf_nodes(Cur, "g", Threshold(-3)).ret = order["g"]
    /\ leaf_nodes(Cur, "g", Threshold(-4)).ret # order["g"]
    /\ root_nodes(Cur, "g", Predicate({RUNTIME})).ret = order["g"]
    /\ root_nodes(Cur, "g", Predicate({})).ret # order["g"]

\* C9: a successful remove_edge(child, parent) removes that edge and
\* nothing else: both endpoints stay, `order` is unchanged, and every other
\* edge, a reverse edge included, keeps its existence and its priorities
RemoveEdgeExact ==
    \A c \in Nodes, p \in Nodes :
        \E r \in {remove_edge(Cur, "g", c, p)} :
            r.exc = NoExc =>
                /\ ~has_edge(r, "g", c, p)
                /\ ~InParentNodes(r, "g", c, p, NoFilter)
                /\ contains(r, "g", c)
                /\ contains(r, "g", p)
                /\ r.order = order
                /\ DictKeys(r.nodes["g"]) = DictKeys(nodes["g"])
                /\ \A c2 \in Nodes, p2 \in Nodes :
                      <<c2, p2>> # <<c, p>> =>
                          /\ has_edge(r, "g", c2, p2) <=> has_edge(Cur, "g", c2, p2)
                          /\ InParentNodes(r, "g", c2, p2, NoFilter)
                                <=> InParentNodes(Cur, "g", c2, p2, NoFilter)
                          /\ ParentsView(r, "g", c2, p2) = ParentsView(Cur, "g", c2, p2)
                          /\ ChildrenView(r, "g", c2, p2) = ChildrenView(Cur, "g", c2, p2)

\* a remove_edge has succeeded and the reverse edge, with two priorities,
\* is still there
RemoveEdgeExactWitness ==
    /\ last.op = "remove_edge"
    /\ last.exc = NoExc
    /\ last.node # last.parent
    /\ ~has_edge(Cur, "g", last.node, last.parent)
    /\ has_edge(Cur, "g", last.parent, last.node)
    /\ Len(ParentsView(Cur, "g", last.parent, last.node)) = 2

\* C10: remove_edge(child, parent) raises whenever an endpoint is absent or
\* the edge does not exist, and then leaves nodes, order and every priority
\* list as they were
RemoveEdgeFailsCleanly ==
    \A c \in Nodes, p \in Nodes :
        (~contains(Cur, "g", c) \/ ~contains(Cur, "g", p) \/ ~has_edge(Cur, "g", c, p)) =>
            \E r \in {remove_edge(Cur, "g", c, p)} :
                /\ r.exc # NoExc
                /\ r.nodes = nodes
                /\ r.order = order
                /\ r.heap = heap

\* a remove_edge has raised for a missing edge between two nodes of the
\* graph that the reverse edge joins
RemoveEdgeFailsWitness ==
    /\ last.op = "remove_edge"
    /\ last.exc = KeyError(last.node)
    /\ contains(Cur, "g", last.node)
    /\ contains(Cur, "g", last.parent)
    /\ has_edge(Cur, "g", last.parent, last.node)
    /\ ~has_edge(Cur, "g", last.node, last.parent)

\* the two ways remove_edge(c, p) fails
MissingEndpoint(st, g, c, p) == ~contains(st, g, c) \/ ~contains(st, g, p)

MissingEdge(st, g, c, p) ==
    contains(st, g, c) /\ contains(st, g, p) /\ ~has_edge(st, g, c, p)

\* C11 as stated: the error remove_edge raises for an absent endpoint is
\* never the error it raises for a missing edge between two nodes that
\* exist, so the error alone tells the caller which of the two happened
RemoveEdgeErrorsTellCause ==
    \A g1 \in GraphIds, g2 \in GraphIds :
        \A c1 \in TwoNodes, p1 \in TwoNodes, c2 \in TwoNodes, p2 \in TwoNodes :
            (MissingEndpoint(Cur, g1, c1, p1) /\ MissingEdge(Cur, g2, c2, p2)) =>
                remove_edge(Cur, g1, c1, p1).exc # remove_edge(Cur, g2, c2, p2).exc

\* C12: remove(n), child_nodes(n), parent_nodes(n), bfs(n) and shortest_path
\* with n as either endpoint raise KeyError for a node n the graph does not
\* hold and change nothing; discard(n) of such a node raises nothing and
\* changes nothing, and discard(n) of a node the graph holds does what
\* remove(n) does
AbsentNodeFailsCleanly ==
    \A n \in Nodes :
        IF contains(Cur, "g", n)
        THEN /\ discard(Cur, "g", n) = remove(Cur, "g", n)
             /\ remove(Cur, "g", n).exc = NoExc
        ELSE /\ remove(Cur, "g", n) = Raise(Cur, KeyError(n))
             /\ discard(Cur, "g", n) = Cur
             /\ \A ip \in Filters :
                   /\ child_nodes(Cur, "g", n, ip) = Throw(KeyError(n))
                   /\ parent_nodes(Cur, "g", n, ip) = Throw(KeyError(n))
                   /\ bfs(Cur, "g", n, ip) = {Throw(KeyError(n))}
                   /\ \A m \in Nodes :
                         /\ shortest_path(Cur, "g", n, m, ip) = {Throw(KeyError(n))}
                         /\ contains(Cur, "g", m) =>
                               shortest_path(Cur, "g", m, n, ip) = {Throw(KeyError(n))}

\* a remove of a node the graph does not hold has raised KeyError, in a
\* graph of two nodes that an edge joins
AbsentNodeWitness ==
    /\ last.op = "remove"
    /\ last.exc = KeyError(last.node)
    /\ ~contains(Cur, "g", last.node)
    /\ Len(order["g"]) = 2
    /\ \E c \in Nodes, p \in Nodes : c # p /\ has_edge(Cur, "g", c, p)

\* what a caller can see of graph g: all_nodes(), and for every node, in
\* dict order, its children and its parents with the priorities of the edge
Resolved(st, d) == [j \in 1..Len(d) |-> <<d[j][1], st.heap[d[j][2]]>>]

GraphView(st, g) ==
    [order |-> all_nodes(st, g),
     nodes |-> [i \in 1..Len(st.nodes[g]) |->
                  <<st.nodes[g][i][1],
                    Resolved(st, st.nodes[g][i][2][1]),
                    Resolved(st, st.nodes[g][i][2][2])>>]]

\* the states one call of add, remove, discard, remove_edge,
\* difference_update or clear on graph g leads to
Mutated(st, g) ==
    {add(st, g, n, p, q) :
        n \in TwoNodes, p \in TwoNodes \cup {NoneVal}, q \in TwoPriorities}
    \cup {remove(st, g, n) : n \in TwoNodes}
    \cup {discard(st, g, n) : n \in TwoNodes}
    \cup {remove_edge(st, g, c, p) : c \in TwoNodes, p \in TwoNodes}
    \cup {difference_update(st, g, t) : t \in SUBSET TwoNodes}
    \cup {clear(st, g)}

\* c = g.clone(), c a new object, has the nodes, the edges and the
\* priorities of g, and a call that changes one of the two leaves the other
\* as it was
CloneFidelity ==
    \A src \in GraphIds : \A dst \in GraphIds \ {src} :
        IsEmpty(Cur, dst) =>
            \E r \in {clone(Cur, src, dst)} :
                \E v \in {GraphView(Cur, src)} :
                    /\ r.exc = NoExc
                    /\ all_nodes(r, dst) = all_nodes(Cur, src)
                    /\ EdgeSet(r, dst) = EdgeSet(Cur, src)
                    /\ \A c \in TwoNodes, p \in TwoNodes :
                          /\ ParentsView(r, dst, c, p) = ParentsView(Cur, src, c, p)
                          /\ ChildrenView(r, dst, c, p) = ChildrenView(Cur, src, c, p)
                    /\ GraphView(r, dst) = v
                    /\ GraphView(r, src) = v
                    /\ \A m \in Mutated(r, dst) : GraphView(m, src) = v
                    /\ \A m \in Mutated(r, src) : GraphView(m, dst) = v

\* a call on one graph leaves the other graph as it was
OtherGraphUntouched ==
    \A y \in GraphIds \ {last'.g} : GraphView(Nxt, y) = GraphView(Cur, y)

\* C13: a clone has the all_nodes() sequence, the edges and the per-edge
\* priorities of the original, and no sequence of add, remove, remove_edge,
\* difference_update or clear on either of the two changes the other
CloneIndependent == []CloneFidelity /\ [][OtherGraphUntouched]_vars

\* a graph with an edge has been cloned: the clone shows what the
\* original shows, and holds the priorities in a list of its own
CloneWitness ==
    /\ last.op = "clone"
    /\ last.exc = NoExc
    /\ \E c \in TwoNodes, p \in TwoNodes :
          /\ c # p
          /\ has_edge(Cur, last.g, c, p)
          /\ has_edge(Cur, last.other, c, p)
          /\ DictGet(ParentsOf(Cur, last.g, c), p) # DictGet(ParentsOf(Cur, last.other, c), p)
    /\ GraphView(Cur, last.g) = GraphView(Cur, last.other)

\* the value a threshold is compared with: that of the last priority of the
\* list of edge (c, p), which exists
Effective(st, g, c, p) == ParentsView(st, g, c, p)[Len(ParentsView(st, g, c, p))].val

\* the values of all the priorities edge (c, p) holds, none if it is no edge
EdgeVals(st, g, c, p) == {q.val : q \in Elems(ParentsView(st, g, c, p))}

\* C14: self.update(other), other another graph, leaves in self the nodes
\* and the edges of both and no other edge, gives every edge the hardest of
\* the priorities it had in self and has in other, and leaves other as it was
UpdateMerges ==
    \A self \in GraphIds : \A other \in GraphIds \ {self} :
        \E r \in {update(Cur, self, other)} :
            /\ r.exc = NoExc
            /\ \A n \in Elems(all_nodes(Cur, other)) : contains(r, self, n)
            /\ \A n \in Elems(all_nodes(Cur, self)) : contains(r, self, n)
            /\ Elems(all_nodes(r, self)) =
                  Elems(all_nodes(Cur, self)) \cup Elems(all_nodes(Cur, other))
            /\ EdgeSet(r, self) = EdgeSet(Cur, self) \cup EdgeSet(Cur, other)
            /\ \A e \in EdgeSet(r, self) :
                  /\ ChildrenView(r, self, e[1], e[2]) = ParentsView(r, self, e[1], e[2])
                  /\ \A v \in EdgeVals(Cur, self, e[1], e[2])
                               \cup EdgeVals(Cur, other, e[1], e[2]) :
                        v <= Effective(r, self, e[1], e[2])
                  /\ Effective(r, self, e[1], e[2]) \in
                        EdgeVals(Cur, self, e[1], e[2]) \cup EdgeVals(Cur, other, e[1], e[2])
            /\ GraphView(r, other) = GraphView(Cur, other)

\* an update has copied an edge into a graph that held a node of its own
UpdateWitness ==
    /\ last.op = "update"
    /\ last.exc = NoExc
    /\ \E c \in TwoNodes, p \in TwoNodes :
          /\ c # p
          /\ has_edge(Cur, last.g, c, p)
          /\ has_edge(Cur, last.other, c, p)
    /\ all_nodes(Cur, last.g) # all_nodes(Cur, last.other)

\* remove(n) for each n of the sequence ns in turn
RECURSIVE RemoveEach(_, _, _)
RemoveEach(st, g, ns) ==
    IF ns = <<>> \/ st.exc # NoExc THEN st
    ELSE RemoveEach(remove(st, g, Head(ns)), g, Tail(ns))

\* C15: difference_update(T) leaves the graph in the state that remove(n)
\* for each n of T that the graph holds, in any order, leaves it in; what T
\* holds besides is ignored
DifferenceIsRepeatedRemove ==
    \A t \in SUBSET (Nodes \ {""}) :
        \E r \in {difference_update(Cur, "g", t)} :
            /\ r.exc = NoExc
            /\ r = difference_update(Cur, "g", t \cap DictKeySet(nodes["g"]))
            /\ \A ns \in Perms(t \cap DictKeySet(nodes["g"])) :
                  RemoveEach(Cur, "g", ns) = r

\* the graph holds three nodes and edges between them, and a
\* difference_update of two of the nodes leaves the third and no edge
DifferenceWitness ==
    /\ Len(order["g"]) = 3
    /\ Cardinality(EdgeSet(Cur, "g")) >= 2
    /\ \E t \in SUBSET Elems(order["g"]) :
          /\ Cardinality(t) = 2
          /\ Len(difference_update(Cur, "g", t).order["g"]) = 1
          /\ EdgeSet(difference_update(Cur, "g", t), "g") = {}
          /\ difference_update(Cur, "g", t).heap # heap

\* set(child_nodes(n, ip))
Kids(st, g, n, ip) == Elems(child_nodes(st, g, n, ip).ret)

\* the nodes that at most k edges of child_nodes(., ip) lead to from start
RECURSIVE Ball(_, _, _, _, _)
Ball(st, g, start, ip, k) ==
    IF k = 0 THEN {start}
    ELSE LET b == Ball(st, g, start, ip, k - 1)
         IN  b \cup UNION {Kids(st, g, n, ip) : n \in b}

\* levels[k + 1] is the nodes at most k edges away from start
Levels(st, g, start, ip) ==
    [i \in 1..(Len(st.order[g]) + 1) |-> Ball(st, g, start, ip, i - 1)]

\* the nodes reachable from start
Reach(levels) == levels[Len(levels)]

\* the edge distance from start of n, a node reachable from start
Dist(levels, n) ==
    CHOOSE k \in 0..(Len(levels) - 1) :
        /\ n \in levels[k + 1]
        /\ \A j \in 1..k : n \notin levels[j]

\* ignore_priority of each mode, passing all edges, those of BUILDTIME,
\* those of RUNTIME, or none
TraversalFilters ==
    {NoFilter, Threshold(-2), Threshold(-1),
     Predicate({RUNTIME}), Predicate({BUILDTIME}), Predicate({RUNTIME, BUILDTIME})}

\* C16: bfs(start, ip) yields (None, start) first, then every node
\* reachable from start through child_nodes(., ip) once and no other node;
\* a pair (p, n) it yields with p not None has n in child_nodes(p, ip) and
\* p yielded earlier; the nodes come in non-decreasing distance from start
BfsBreadthFirst ==
    \A start \in Elems(order["g"]), ip \in TraversalFilters :
        \E levels \in {Levels(Cur, "g", start, ip)} :
            \A run \in bfs(Cur, "g", start, ip) :
                \E ns \in {[i \in 1..Len(run.ret) |-> run.ret[i][2]]} :
                    /\ run.exc = NoExc
                    /\ Len(run.ret) >= 1
                    /\ run.ret[1] = <<NoneVal, start>>
                    /\ NoDuplicates(ns)
                    /\ Elems(ns) = Reach(levels)
                    /\ \A i \in 1..Len(ns) :
                          run.ret[i][1] # NoneVal =>
                              /\ ns[i] \in Kids(Cur, "g", run.ret[i][1], ip)
                              /\ \E j \in 1..(i - 1) : ns[j] = run.ret[i][1]
                    /\ \A i \in 1..(Len(ns) - 1) :
                          Dist(levels, ns[i]) <= Dist(levels, ns[i + 1])

\* in a graph of four nodes bfs from pkgA reaches them all and can yield
\* two of them in either order; a threshold leaves it one order
BfsWitness ==
    /\ Len(order["g"]) = 4
    /\ Cardinality(bfs(Cur, "g", "pkgA", NoFilter)) = 2
    /\ \A run \in bfs(Cur, "g", "pkgA", NoFilter) : Len(run.ret) = 4
    /\ Cardinality(bfs(Cur, "g", "pkgA", Threshold(-2))) = 1

\* C17: shortest_path(start, end, ip) returns None iff end is not reachable
\* from start through child_nodes(., ip); else a path from start to end
\* along edges of child_nodes(., ip) that no such path is shorter than
ShortestPathMinimal ==
    \A start \in Elems(order["g"]), ip \in TraversalFilters :
        \E levels \in {Levels(Cur, "g", start, ip)} :
            \A end \in Elems(order["g"]) :
                \A r \in shortest_path(Cur, "g", start, end, ip) :
                    /\ r.exc = NoExc
                    /\ r.ret = NoPath <=> end \notin Reach(levels)
                    /\ r.ret # NoPath =>
                          \E path \in {r.ret[1]} :
                              /\ Len(path) = Dist(levels, end) + 1
                              /\ path[1] = start
                              /\ path[Len(path)] = end
                              /\ \A i \in 1..(Len(path) - 1) :
                                    path[i + 1] \in Kids(Cur, "g", path[i], ip)
                              /\ start = end => path = <<start>>

\* two shortest paths lead from pkgB to pkgA and shortest_path can return
\* either; with a threshold one is left, and pkgB is out of reach of pkgA
ShortestPathWitness ==
    /\ Len(order["g"]) = 4
    /\ Cardinality(shortest_path(Cur, "g", "pkgB", "pkgA", NoFilter)) = 2
    /\ shortest_path(Cur, "g", "pkgB", "pkgA", Threshold(-2))
          = {Return(Found(<<"pkgB", "pkgD", "pkgA">>))}
    /\ shortest_path(Cur, "g", "pkgA", "pkgB", Threshold(-2)) = {Return(NoPath)}

\* the edges (child, parent) of the graphs of the traversal specification
LinkSet(st, g) ==
    {e \in TraversalNodes \X TraversalNodes : has_edge(st, g, e[1], e[2])}

\* some node is reachable from one of its children through child_nodes(., ip)
HasCycle(st, g, ip) ==
    \E n \in Elems(st.order[g]) :
        \E c \in Kids(st, g, n, ip) : n \in Reach(Levels(st, g, c, ip))

\* path is a cycle of edges of child_nodes(., ip)
IsCycle(st, g, ip, path) ==
    /\ Len(path) >= 1
    /\ \A i \in 1..(Len(path) - 1) : path[i + 1] \in Kids(st, g, path[i], ip)
    /\ path[1] \in Kids(st, g, path[Len(path)], ip)

\* C18: get_cycles(ip) returns a path iff the edges of child_nodes(., ip)
\* form a cycle, and returns cycles only; for a graph that is a cycle of
\* three nodes it returns a path of length 3 through the three, and after
\* remove_edge of any edge of the cycle it returns nothing
CyclesFound ==
    /\ \A ip \in TraversalFilters :
          \A r \in get_cycles(Cur, "g", ip, NoMax) :
              /\ r.exc = NoExc
              /\ r.ret # <<>> <=> HasCycle(Cur, "g", ip)
              /\ \A i \in 1..Len(r.ret) : IsCycle(Cur, "g", ip, r.ret[i])
    /\ \A a \in TraversalNodes, b \in TraversalNodes, c \in TraversalNodes :
          (Cardinality({a, b, c}) = 3
             /\ LinkSet(Cur, "g") = {<<b, a>>, <<c, b>>, <<a, c>>}) =>
              /\ \A r \in get_cycles(Cur, "g", NoFilter, NoMax) :
                    \E i \in 1..Len(r.ret) :
                        Len(r.ret[i]) = 3 /\ Elems(r.ret[i]) = {a, b, c}
              /\ \A e \in LinkSet(Cur, "g") :
                    get_cycles(remove_edge(Cur, "g", e[1], e[2]), "g", NoFilter, NoMax)
                        = {Return(<<>>)}

\* the graph is a cycle of three nodes, and get_cycles returns it once
\* from each of the three
CyclesWitness ==
    /\ Cardinality(LinkSet(Cur, "g")) = 3
    /\ Len(order["g"]) = 3
    /\ \A r \in get_cycles(Cur, "g", NoFilter, NoMax) :
          /\ Len(r.ret) = 3
          /\ \A i \in 1..3 : Len(r.ret[i]) = 3 /\ Elems(r.ret[i]) = Elems(order["g"])

\* the values of max_length that are integers
MaxLengths == -1..4

\* C19 as stated: for every integer k, 0 included, get_cycles(max_length=k)
\* returns no cycle longer than k, and returns the cycles of get_cycles()
\* that are no longer than k
MaxLengthBounds ==
    \A k \in MaxLengths, ip \in TraversalFilters :
        /\ \A r \in get_cycles(Cur, "g", ip, MaxLength(k)) :
              /\ r.exc = NoExc
              /\ \A i \in 1..Len(r.ret) : Len(r.ret[i]) <= k
        /\ get_cycles(Cur, "g", ip, MaxLength(k)) =
              {Return(SelectSeq(r.ret, LAMBDA path : Len(path) <= k))
                 : r \in get_cycles(Cur, "g", ip, NoMax)}

\* C20 as stated: the set of cycle paths get_cycles returns for a graph is
\* the same under every order in which bfs can iterate over its sets, also
\* when several shortest paths lead from a child back to the node
CyclesDeterministic ==
    \A ip \in TraversalFilters :
        Cardinality({Elems(r.ret) : r \in get_cycles(Cur, "g", ip, NoMax)}) = 1

\* the rank of the first category set, scanning from hardest to softest
FirstCategory(self) ==
    IF self.buildtime_slot_op THEN 0
    ELSE IF self.buildtime THEN -1
    ELSE IF self.runtime_slot_op THEN -2
    ELSE IF self.runtime THEN -3
    ELSE IF self.runtime_post THEN -4
    ELSE IF self.optional THEN -5
    ELSE -6

\* C21: for every combination of the six flags, int(p) is the rank of the
\* first category set in the order buildtime_slot_op (0), buildtime (-1),
\* runtime_slot_op (-2), runtime (-3), runtime_post (-4), optional (-5), and
\* -6 when none is set; a priority with buildtime and optional ranks -1
RankIsFirstCategory ==
    last.op = "__int__" => last.ret = FirstCategory(last.self)

\* a traversal has been started; it has finished when no loop has an
\* iteration left
Running == ~Building

Finished ==
    Running /\ last.queue = <<>> /\ last.children = <<>> /\ last.todo = <<>>

\* one bfs yields no node twice
VisitedOnce == Running => NoDuplicates(last.visited)

\* C22: on every graph, with cycles and loops or without, a full iteration
\* of bfs(start), shortest_path(start, end) and get_cycles() each come to
\* their end, and one bfs (also the one under shortest_path) visits each
\* node at most once
TraversalsTerminate == []VisitedOnce /\ (Running ~> Finished)

\* get_cycles has finished on a graph with a loop on pkgA and a cycle through
\* pkgA and pkgB, and the last bfs under it visited two nodes
TerminateWitness ==
    /\ Finished
    /\ last.op = "get_cycles"
    /\ last.exc = NoExc
    /\ has_edge(Cur, "g", "pkgA", "pkgA")
    /\ has_edge(Cur, "g", "pkgA", "pkgB")
    /\ has_edge(Cur, "g", "pkgB", "pkgA")
    /\ Len(last.visited) = 2

\* edge (c, p) is in both adjacency views or in neither, and both views
\* hold the same list object
SameList(st, g, c, p) ==
    LET inParents == contains(st, g, c) /\ DictHas(ParentsOf(st, g, c), p)
        inChildren == contains(st, g, p) /\ DictHas(ChildrenOf(st, g, p), c)
    IN  /\ inParents = inChildren
        /\ inParents => DictGet(ParentsOf(st, g, c), p) = DictGet(ChildrenOf(st, g, p), c)

\* no filter, RUNTIME ignored by threshold, BUILDTIME ignored by predicate
ViewFilters == {NoFilter, Threshold(-3), Predicate({BUILDTIME})}

BothDirections(st, g) ==
    \A c \in TwoNodes, p \in TwoNodes :
        /\ SameList(st, g, c, p)
        /\ \A ip \in ViewFilters :
              InParentNodes(st, g, c, p, ip) <=> InChildNodes(st, g, p, c, ip)

\* after add(c, p, priority) the priority is in the list of both views
Inserted(st, g, c, p, priority) ==
    /\ SameList(st, g, c, p)
    /\ priority \in Elems(st.heap[DictGet(ParentsOf(st, g, c), p)])
    /\ priority \in Elems(st.heap[DictGet(ChildrenOf(st, g, p), c)])
    /\ \A ip \in ViewFilters :
          InParentNodes(st, g, c, p, ip) <=> InChildNodes(st, g, p, c, ip)

\* C23: in every reachable state the two adjacency views of an edge hold
\* the same priority list and parent_nodes(c, ip) contains p iff
\* child_nodes(p, ip) contains c, for every filter ip; the same holds of
\* dst = src.clone(), and after any add(c, p, priority) on the original or
\* on the clone the priority is in the list of both views
SharedLists ==
    /\ \A g \in GraphIds : BothDirections(Cur, g)
    /\ \A src \in GraphIds : \A dst \in GraphIds \ {src} :
          IsEmpty(Cur, dst) =>
              \E r \in {clone(Cur, src, dst)} :
                  /\ BothDirections(r, dst)
                  /\ \A g \in GraphIds, c \in TwoNodes, p \in TwoNodes,
                        priority \in TwoPriorities :
                        Inserted(add(r, g, c, p, priority), g, c, p, priority)

\* h = g.clone() has just been made of a graph with an edge of RUNTIME, and
\* h.add of BUILDTIME on that edge gives h a list of two priorities in both
\* views while g keeps its list of one
SharedListsWitness ==
    /\ last.op = "clone"
    /\ last.g = "h"
    /\ last.other = "g"
    /\ has_edge(Cur, "h", "pkgA", "pkgB")
    /\ \E r \in {add(Cur, "h", "pkgA", "pkgB", BUILDTIME)} :
          /\ r.heap[DictGet(ParentsOf(r, "h", "pkgA"), "pkgB")] = <<RUNTIME, BUILDTIME>>
          /\ r.heap[DictGet(ChildrenOf(r, "h", "pkgB"), "pkgA")] = <<RUNTIME, BUILDTIME>>
          /\ r.heap[DictGet(ParentsOf(r, "g", "pkgA"), "pkgB")] = <<RUNTIME>>

\* ascending by what < compares
Sorted(l) == \A i \in 1..(Len(l) - 1) : l[i].val <= l[i + 1].val

\* the priority lists the adjacency dicts of graph g refer to
EdgeLists(st, g) ==
    UNION {DictValSet(st.nodes[g][i][2][1]) \cup DictValSet(st.nodes[g][i][2][2])
           : i \in 1..Len(st.nodes[g])}

\* C24: in every reachable state, after any sequence of add, update, clone,
\* remove, remove_edge and difference_update, the priority list of every
\* edge is non-empty and sorted ascending, its last element is its maximum,
\* and child_nodes and parent_nodes with a threshold raise nothing
EdgeListsSorted ==
    \A g \in GraphIds :
        /\ \A id \in EdgeLists(Cur, g) :
              /\ id \in DOMAIN heap
              /\ heap[id] # <<>>
              /\ Sorted(heap[id])
              /\ heap[id][Len(heap[id])].val = MaxVal(heap[id])
        /\ \A n \in TwoNodes, t \in Thresholds :
              contains(Cur, g, n) =>
                  /\ child_nodes(Cur, g, n, Threshold(t)).exc = NoExc
                  /\ parent_nodes(Cur, g, n, Threshold(t)).exc = NoExc

\* add has put RUNTIME into a list that held BUILDTIME: the softer priority
\* is first though it came last
EdgeListsWitness ==
    /\ last.op = "add"
    /\ last.priority = RUNTIME
    /\ last.parent # NoneVal
    /\ has_edge(Cur, last.g, last.node, last.parent)
    /\ heap[DictGet(ParentsOf(Cur, last.g, last.node), last.parent)]
           = <<RUNTIME, BUILDTIME>>

\* the call made last was add(node, parent, priority) on edge (n, p) of g,
\* so that `priority` is the object inserted last on that edge
InsertedLast(g, n, p) ==
    /\ last.op = "add"
    /\ last.exc = NoExc
    /\ last.g = g
    /\ last.node = n
    /\ last.parent = p

\* C25: add(node, parent, p) with p the priority object inserted last on
\* that edge leaves the edge's priority list unchanged, whatever else the
\* list holds; with a distinct object of equal value the list grows by it
DedupByIdentity ==
    [][(last'.op = "add" /\ last'.parent # NoneVal /\ InsertedLast(last'.g, last'.node, last'.parent)) =>
          LET before == ParentsView(Cur, last'.g, last'.node, last'.parent)
              after == ParentsView(Nxt, last'.g, last'.node, last'.parent)
          IN  /\ last'.priority.id = last.priority.id => after = before
              /\ (/\ last'.priority.id # last.priority.id
                  /\ last'.priority.val = last.priority.val) =>
                    /\ Len(after) = Len(before) + 1
                    /\ \E i \in 1..Len(after) : after[i].id = last'.priority.id]_vars

\* the children of n, in the order of child_nodes(n, ip), whose shortest path
\* back to n is no longer than that of any other child of n
Closers(st, g, n, ip) ==
    LET kids == child_nodes(st, g, n, ip).ret
        back == [c \in Elems(kids) |-> Levels(st, g, c, ip)]
        Back(c) == n \in Reach(back[c])
    IN  SelectSeq(kids, LAMBDA c :
            /\ Back(c)
            /\ \A d \in Elems(kids) :
                  Back(d) => Dist(back[c], n) <= Dist(back[d], n))

Without(s, gone) == SelectSeq(s, LAMBDA x : x \notin gone)

\* s followed by x unless s holds x or x is no key
AppendNew(s, x) == IF x \in Elems(s) \/ Falsy(x) THEN s ELSE Append(s, x)

\* what a call does to self.order of the graph it is made on
OrderStep ==
    LET g == last'.g
        old == order[g]
        new == order'[g]
    IN  /\ \A h \in GraphIds \ {g} : order'[h] = order[h]
        /\ last'.op = "add" =>
              new = IF Falsy(last'.parent) THEN AppendNew(old, last'.node)
                    ELSE AppendNew(AppendNew(old, last'.node), last'.parent)
        /\ last'.op = "update" =>
              /\ SubSeq(new, 1, Len(old)) = old
              /\ Elems(new) = Elems(old) \cup Elems(order[last'.other])
              /\ NoDuplicates(new)
        /\ last'.op \in {"remove", "discard"} => new = Without(old, {last'.node})
        /\ last'.op = "difference_update" => new = Without(old, last'.t)
        /\ last'.op = "remove_edge" => new = old

Consistent(st, g) ==
    /\ \A c \in Nodes, p \in Nodes :
          /\ has_edge(st, g, c, p) <=> InParentNodes(st, g, c, p, NoFilter)
          /\ InParentNodes(st, g, c, p, NoFilter) <=> InChildNodes(st, g, p, c, NoFilter)
    /\ DictKeySet(st.nodes[g]) = Elems(st.order[g])
    /\ NoDuplicates(st.order[g])
    /\ \A i \in 1..Len(st.nodes[g]) :
          DictKeySet(st.nodes[g][i][2][1]) \cup DictKeySet(st.nodes[g][i][2][2])
              \subseteq DictKeySet(st.nodes[g])

\* C28: after add(n, n, p), has_edge(n, n) is true and n is in child_nodes(n)
\* and in parent_nodes(n); on a graph with the loop, remove(n),
\* difference_update({n}) and remove_edge(n, n) each raise nothing and leave
\* a graph that satisfies the symmetry and the nodes/order bijection, with
\* no adjacency entry for a node that is gone
SelfLoops ==
    /\ (last.op = "add" /\ last.node = last.parent) =>
          has_edge(Cur, last.g, last.node, last.node)
    /\ \A n \in Nodes :
          has_edge(Cur, "g", n, n) =>
              /\ InChildNodes(Cur, "g", n, n, NoFilter)
              /\ InParentNodes(Cur, "g", n, n, NoFilter)
              /\ \E r \in {remove(Cur, "g", n)} :
                    r.exc = NoExc /\ ~contains(r, "g", n) /\ Consistent(r, "g")
              /\ \E r \in {difference_update(Cur, "g", {n})} :
                    r.exc = NoExc /\ ~contains(r, "g", n) /\ Consistent(r, "g")
              /\ \E r \in {remove_edge(Cur, "g", n, n)} :
                    /\ r.exc = NoExc
                    /\ contains(r, "g", n)
                    /\ ~has_edge(r, "g", n, n)
                    /\ Consistent(r, "g")

\* add has put a loop on pkgA, which has an edge to and an edge from pkgB
SelfLoopsWitness ==
    /\ last.op = "add"
    /\ last.node = "pkgA"
    /\ last.parent = "pkgA"
    /\ has_edge(Cur, "g", "pkgA", "pkgA")
    /\ has_edge(Cur, "g", "pkgA", "pkgB")
    /\ has_edge(Cur, "g", "pkgB", "pkgA")

\* update has returned
Returned == last.op = "update" /\ last.over /\ last.exc = NoExc

\* graph g has the nodes, the order, the edges and, on each edge, the
\* hardest priority it had when update was called
AsBefore(g) ==
    \E b \in {[nodes |-> last.before.nodes, order |-> last.before.order,
               heap |-> last.before.heap, exc |-> NoExc]} :
        /\ DictKeySet(nodes[g]) = DictKeySet(b.nodes[g])
        /\ order[g] = b.order[g]
        /\ EdgeSet(Cur, g) = EdgeSet(b, g)
        /\ \A e \in EdgeSet(Cur, g) :
              Effective(Cur, g, e[1], e[2]) = Effective(b, g, e[1], e[2])

\* C29: update returns for every argument, self included: an update that
\* has ended, g.update(g) too and also when an edge holds two or more
\* priorities, has ended by returning and not by running out of memory in
\* a loop that never reaches its end, and g.update(g) has left g's nodes,
\* order, edges and the hardest priority of each edge as they were
UpdateTerminates ==
    (last.op = "update" /\ last.over) =>
        /\ last.exc = NoExc
        /\ (last.g = last.other) => AsBefore(last.g)

====
